---- MODULE Spec2Model ----
(***************************************************************************)
(* Model of the Stepper class of ESPy32 (src/Stepper/stepper.py): the      *)
(* configuration setters, the three rotate entry points and the shared     *)
(* step loop injected by the _rotate decorator.                            *)
(*                                                                         *)
(* Python floats are modelled as exact rationals [n, d] (d > 0) carrying a *)
(* flag f that says whether the Python value is a float (TRUE) or an int   *)
(* (FALSE): range() accepts only the latter.  For the inputs enumerated    *)
(* below the float results of get_step_us agree with the exact ones.       *)
(***************************************************************************)
EXTENDS Integers, Sequences, FiniteSets, TLC

VARIABLES
    has_dir,          \* self._dir_pin is a Pin (TRUE) or False
    has_en,           \* self._en_pin is a Signal (TRUE) or False
    stp,              \* level of the step line   (Unset until first written)
    dir,              \* level of the direction line
    en,               \* logical state of the enable Signal (1 = on)
    microsteps,       \* self._microsteps
    initial_speed,    \* self._initial_speed
    initial_step_us,  \* self._initial_step_us
    target_speed,     \* self._target_speed
    target_step_us,   \* self._target_step_us
    accel_rate,       \* self._accel_rate, a rational
    pc,               \* position of the running call (rotate or setter)
    kind,             \* entry point of the running call
    arg,              \* n, the magnitude passed by the caller
    rot_dir,          \* rot_dir argument
    hold,             \* hold argument
    steps,            \* local steps
    step_interval,    \* local step_interval
    accel_point,      \* local accel_point
    decel_point,      \* local decel_point
    increment,        \* local increment
    step,             \* loop variable step
    interval,         \* local interval
    prev_interval,    \* interval of the previous pulse of this call
    high_us,          \* argument of the sleep_us after _stp_pin.on()
    low_us,           \* argument of the sleep_us after _stp_pin.off()
    pulses,           \* completed on/off pulses of this call
    exc,              \* exception that ended the call
    en_before,        \* enable state when the call was entered
    cfg_before,       \* configuration when the call or setter was entered
    op                \* the setter call made last, with its argument

vars == <<has_dir, has_en, stp, dir, en, microsteps, initial_speed,
          initial_step_us, target_speed, target_step_us, accel_rate, pc,
          kind, arg, rot_dir, hold, steps, step_interval, accel_point,
          decel_point, increment, step, interval, prev_interval, high_us,
          low_us, pulses, exc, en_before, cfg_before, op>>

pins   == <<stp, dir, en>>
hw     == <<has_dir, has_en>>
config == <<microsteps, initial_speed, initial_step_us, target_speed,
            target_step_us, accel_rate>>
locals == <<kind, arg, rot_dir, hold, steps, step_interval, accel_point,
            decel_point, increment, step, interval, prev_interval, high_us,
            low_us, pulses, en_before, cfg_before, op>>
\* the locals of a rotate call, which no setter touches
frame  == <<kind, arg, rot_dir, hold, steps, step_interval, accel_point,
            decel_point, increment, step, interval, prev_interval, high_us,
            low_us, pulses, en_before>>

----------------------------------------------------------------------------
(* Bounds of the model *)

MaxSteps == 3
MaxRevs == 1

(* Program constants *)

FORWARD == 1
REVERSE == 0
STEPS_PER_REV == 200
DEGS_PER_REV == 360
DEFAULT_SPEED == 200

Unset == -1
ValidMicrosteps == {1, 2, 4, 8, 16, 32}

----------------------------------------------------------------------------
(* Numbers *)

Abs(x) == IF x < 0 THEN -x ELSE x

RECURSIVE GCD(_, _)
GCD(a, b) == IF b = 0 THEN a ELSE GCD(b, a % b)

\* a number n/d in lowest terms with d > 0; f: it is a Python float
Num(n, d, f) ==
    LET g == GCD(Abs(n), Abs(d))
        s == IF d < 0 THEN -1 ELSE 1
    IN  [n |-> s * (n \div g), d |-> s * (d \div g), f |-> f]

PyInt(i) == [n |-> i, d |-> 1, f |-> FALSE]
PyFloat(n, d) == Num(n, d, TRUE)
None == [n |-> 0, d |-> 0, f |-> FALSE]
NoOp == [name |-> "none", val |-> 0]

Add(a, b) == Num(a.n * b.d + b.n * a.d, a.d * b.d, a.f \/ b.f)
Sub(a, b) == Num(a.n * b.d - b.n * a.d, a.d * b.d, a.f \/ b.f)
Mul(a, b) == Num(a.n * b.n, a.d * b.d, a.f \/ b.f)
\* Python's true division: the result is always a float
TrueDiv(a, b) == Num(a.n * b.d, a.d * b.n, TRUE)
Less(a, b) == a.n * b.d < b.n * a.d
Leq(a, b) == a.n * b.d <= b.n * a.d

\* int(x): truncation toward zero
Trunc(a) == IF a.n >= 0 THEN a.n \div a.d ELSE -((-a.n) \div a.d)

\* math.ceil(n / d) for integers n, d with d # 0
Ceil(n, d) ==
    LET nn == IF d < 0 THEN -n ELSE n
        dd == Abs(d)
    IN  IF nn >= 0 THEN (nn + dd - 1) \div dd ELSE -((-nn) \div dd)

----------------------------------------------------------------------------
(* Construction: Stepper(stp_pin, dir_pin = None, en_pin = None) *)

\* variant: the interval is rounded down instead of up
step_us_Floor(speed, u) == (18 * 1000000) \div (10 * (6 * speed * u))

\* get_step_us for a given microsteps value:
\* ceil((1.8 / (6 * speed * microsteps)) * pow(10, 6));  6 * speed * u # 0
step_us(speed, u) == Ceil(18 * 1000000, 10 * (6 * speed * u))

get_step_us(speed) == step_us(speed, microsteps)

NoCall ==
    /\ kind = "none"
    /\ arg = None
    /\ rot_dir = Unset
    /\ hold = FALSE
    /\ steps = None
    /\ step_interval = None
    /\ accel_point = None
    /\ decel_point = None
    /\ increment = None
    /\ step = 0
    /\ interval = 0
    /\ prev_interval = 0
    /\ high_us = 0
    /\ low_us = 0
    /\ pulses = 0
    /\ en_before = Unset
    /\ cfg_before = <<>>
    /\ op = NoOp

Init ==
    /\ has_dir \in BOOLEAN
    /\ has_en \in BOOLEAN
    /\ stp = Unset
    /\ dir = Unset
    /\ en = Unset
    /\ microsteps = 1
    /\ initial_speed = DEFAULT_SPEED
    /\ initial_step_us = step_us(DEFAULT_SPEED, 1)
    /\ target_speed = DEFAULT_SPEED
    /\ target_step_us = step_us(DEFAULT_SPEED, 1)
    /\ accel_rate = PyInt(0)
    /\ pc = "idle"
    /\ exc = "none"
    /\ NoCall

----------------------------------------------------------------------------
(* Property setters *)

\* variant: the value is stored without the membership test of line 146
SetMicrosteps_Unchecked(u_steps) ==
    /\ pc = "idle"
    /\ microsteps' = u_steps
    /\ cfg_before' = config
    /\ op' = [name |-> "microsteps", val |-> u_steps]
    /\ pc' = "set"
    /\ UNCHANGED <<hw, pins, initial_speed, initial_step_us, target_speed,
                   target_step_us, accel_rate, exc, frame>>

SetMicrosteps(u_steps) ==
    /\ pc = "idle"
    /\ microsteps' = IF u_steps \in ValidMicrosteps THEN u_steps ELSE microsteps
    /\ cfg_before' = config
    /\ op' = [name |-> "microsteps", val |-> u_steps]
    /\ pc' = "set"
    /\ UNCHANGED <<hw, pins, initial_speed, initial_step_us, target_speed,
                   target_step_us, accel_rate, exc, frame>>

SetInitialSpeed(new_speed) ==
    /\ pc = "idle"
    /\ initial_speed' = new_speed
    /\ IF 6 * new_speed * microsteps = 0
       THEN /\ pc' = "raised"
            /\ exc' = "ZeroDivisionError"
            /\ UNCHANGED initial_step_us
       ELSE /\ initial_step_us' = get_step_us(new_speed)
            /\ pc' = "set"
            /\ UNCHANGED exc
    /\ cfg_before' = config
    /\ op' = [name |-> "initial_speed", val |-> new_speed]
    /\ UNCHANGED <<hw, pins, microsteps, target_speed, target_step_us,
                   accel_rate, frame>>

\* the print of line 168 has no effect on the state
SetTargetSpeed(new_speed) ==
    /\ pc = "idle"
    /\ target_speed' = new_speed
    /\ IF 6 * new_speed * microsteps = 0
       THEN /\ pc' = "raised"
            /\ exc' = "ZeroDivisionError"
            /\ UNCHANGED target_step_us
       ELSE /\ target_step_us' = get_step_us(new_speed)
            /\ pc' = "set"
            /\ UNCHANGED exc
    /\ cfg_before' = config
    /\ op' = [name |-> "target_speed", val |-> new_speed]
    /\ UNCHANGED <<hw, pins, microsteps, initial_speed, initial_step_us,
                   accel_rate, frame>>

\* variant: the range of line 177 ends one too far
SetAccelRate_Range102(percent) ==
    /\ pc = "idle"
    /\ accel_rate' = IF percent \in 0..101 THEN PyFloat(percent, 100)
                     ELSE accel_rate
    /\ cfg_before' = config
    /\ op' = [name |-> "accel_rate", val |-> percent]
    /\ pc' = "set"
    /\ UNCHANGED <<hw, pins, microsteps, initial_speed, initial_step_us,
                   target_speed, target_step_us, exc, frame>>

\* percent in range(101); the stored value is percent / 100
SetAccelRate(percent) ==
    /\ pc = "idle"
    /\ accel_rate' = IF percent \in 0..100 THEN PyFloat(percent, 100)
                     ELSE accel_rate
    /\ cfg_before' = config
    /\ op' = [name |-> "accel_rate", val |-> percent]
    /\ pc' = "set"
    /\ UNCHANGED <<hw, pins, microsteps, initial_speed, initial_step_us,
                   target_speed, target_step_us, exc, frame>>

----------------------------------------------------------------------------
(* Unit conversions wrapped by _rotate *)

rotate_degs(degs) ==
    Mul(Mul(TrueDiv(degs, PyInt(DEGS_PER_REV)), PyInt(STEPS_PER_REV)),
        PyInt(microsteps))

\* variant: the conversion ignores the microstepping
rotate_revs_NoMicrosteps(revs) == Mul(revs, PyInt(STEPS_PER_REV))

rotate_revs(revs) == Mul(Mul(revs, PyInt(STEPS_PER_REV)), PyInt(microsteps))

rotate_steps(n) == n

to_steps(k, n) ==
    CASE k = "degs" -> rotate_degs(n)
      [] k = "revs" -> rotate_revs(n)
      [] k = "steps" -> rotate_steps(n)

----------------------------------------------------------------------------
(* mode(self, n, rot_dir, hold): the body injected by _rotate *)

\* bool(self.accel_rate)
Truthy(x) == x.n # 0

\* variant: the halving of line 191 / 201 is left out
HalfInterval_NoHalving(us) == us

\* int(us / 2)
HalfInterval(us) == Trunc(TrueDiv(PyInt(us), PyInt(2)))

\* lines 189-201: conversion and ramp schedule
Call(k, n, rd, h) ==
    /\ pc = "idle"
    /\ kind' = k
    /\ arg' = n
    /\ rot_dir' = rd
    /\ hold' = h
    /\ en_before' = en
    /\ cfg_before' = config
    /\ op' = NoOp
    /\ steps' = to_steps(k, n)
    /\ UNCHANGED <<hw, pins, config, step, interval, prev_interval, high_us,
                   low_us, pulses>>
    /\ IF Truthy(accel_rate)
       THEN LET steps_to_accel == TrueDiv(Mul(steps', accel_rate), PyInt(2))
                delta_accel == TrueDiv(PyInt(initial_step_us - target_step_us),
                                       PyInt(2))
            IN  /\ accel_point' = steps_to_accel
                /\ decel_point' = Sub(Sub(steps', PyInt(1)), steps_to_accel)
                /\ IF steps_to_accel.n = 0
                   THEN /\ pc' = "raised"
                        /\ exc' = "ZeroDivisionError"
                        /\ UNCHANGED <<increment, step_interval>>
                   ELSE /\ increment' = TrueDiv(delta_accel, steps_to_accel)
                        /\ step_interval' = PyInt(HalfInterval(initial_step_us))
                        /\ pc' = "start"
                        /\ UNCHANGED exc
       ELSE /\ step_interval' = PyInt(HalfInterval(target_step_us))
            /\ pc' = "start"
            /\ UNCHANGED <<accel_point, decel_point, increment, exc>>

\* lines 203-204
SetDirection ==
    /\ pc = "start"
    /\ dir' = IF has_dir THEN rot_dir ELSE dir
    /\ pc' = "dir_set"
    /\ UNCHANGED <<hw, stp, en, config, exc, locals>>

\* variant: the enable line is not asserted on entry
Enable_Skipped ==
    /\ pc = "dir_set"
    /\ pc' = "enabled"
    /\ UNCHANGED <<hw, pins, config, exc, locals>>

\* lines 206-207
Enable ==
    /\ pc = "dir_set"
    /\ en' = IF has_en THEN 1 ELSE en
    /\ pc' = "enabled"
    /\ UNCHANGED <<hw, stp, dir, config, exc, locals>>

\* range(steps) rejects a float
RangeError ==
    /\ pc = "enabled"
    /\ steps.f
    /\ pc' = "raised"
    /\ exc' = "TypeError"
    /\ UNCHANGED <<hw, pins, config, locals>>

\* variant: the loop runs one index too many
InRange_OffByOne(i, s) == i <= s.n

\* the loop of line 209 has another index to run
InRange(i, s) == i < s.n

\* lines 211-214: interval, step line on, first delay
StepHigh ==
    /\ pc \in {"enabled", "stepping"}
    /\ ~steps.f
    /\ InRange(step, steps)
    /\ prev_interval' = interval
    /\ interval' = Trunc(step_interval)
    /\ stp' = 1
    /\ high_us' = interval'
    /\ pc' = "high"
    /\ UNCHANGED <<hw, dir, en, config, exc, kind, arg, rot_dir, hold, steps,
                   step_interval, accel_point, decel_point, increment, step,
                   low_us, pulses, en_before, cfg_before, op>>

\* lines 215-216: step line off, second delay
StepLow ==
    /\ pc = "high"
    /\ stp' = 0
    /\ low_us' = interval
    /\ pulses' = pulses + 1
    /\ pc' = "low"
    /\ UNCHANGED <<hw, dir, en, config, exc, kind, arg, rot_dir, hold, steps,
                   step_interval, accel_point, decel_point, increment, step,
                   interval, prev_interval, high_us, en_before, cfg_before,
                   op>>

\* variant: the ramp writes the cached target interval instead of leaving
\* the configuration alone
Adjust_WritesCache ==
    /\ pc = "low"
    /\ step_interval' =
         IF Truthy(accel_rate)
         THEN IF Less(PyInt(step), accel_point)
              THEN Sub(step_interval, increment)
              ELSE IF Leq(decel_point, PyInt(step))
                   THEN Add(step_interval, increment)
                   ELSE step_interval
         ELSE step_interval
    /\ target_step_us' = Trunc(step_interval')
    /\ step' = step + 1
    /\ pc' = "stepping"
    /\ UNCHANGED <<hw, pins, microsteps, initial_speed, initial_step_us,
                   target_speed, accel_rate, exc, kind, arg, rot_dir, hold,
                   steps, accel_point, decel_point, increment, interval,
                   prev_interval, high_us, low_us, pulses, en_before,
                   cfg_before, op>>

\* lines 218-222, then the next index of the loop
Adjust ==
    /\ pc = "low"
    /\ step_interval' =
         IF Truthy(accel_rate)
         THEN IF Less(PyInt(step), accel_point)
              THEN Sub(step_interval, increment)
              ELSE IF Leq(decel_point, PyInt(step))
                   THEN Add(step_interval, increment)
                   ELSE step_interval
         ELSE step_interval
    /\ step' = step + 1
    /\ pc' = "stepping"
    /\ UNCHANGED <<hw, pins, config, exc, kind, arg, rot_dir, hold, steps,
                   accel_point, decel_point, increment, interval,
                   prev_interval, high_us, low_us, pulses, en_before,
                   cfg_before, op>>

\* variant: the enable line is released whatever hold says
Finish_IgnoresHold ==
    /\ pc \in {"enabled", "stepping"}
    /\ ~steps.f
    /\ step >= steps.n
    /\ en' = IF has_en THEN 0 ELSE en
    /\ pc' = "done"
    /\ UNCHANGED <<hw, stp, dir, config, exc, locals>>

\* lines 224-225, after the loop
Finish ==
    /\ pc \in {"enabled", "stepping"}
    /\ ~steps.f
    /\ ~InRange(step, steps)
    /\ en' = IF has_en /\ ~hold THEN 0 ELSE en
    /\ pc' = "done"
    /\ UNCHANGED <<hw, stp, dir, config, exc, locals>>

\* the call (a rotate or a setter) is over, returned or raised: its
\* locals are discarded
Return ==
    /\ pc \in {"done", "raised", "set"}
    /\ pc' = "idle"
    /\ exc' = "none"
    /\ kind' = "none"
    /\ arg' = None
    /\ rot_dir' = Unset
    /\ hold' = FALSE
    /\ steps' = None
    /\ step_interval' = None
    /\ accel_point' = None
    /\ decel_point' = None
    /\ increment' = None
    /\ step' = 0
    /\ interval' = 0
    /\ prev_interval' = 0
    /\ high_us' = 0
    /\ low_us' = 0
    /\ pulses' = 0
    /\ en_before' = Unset
    /\ cfg_before' = <<>>
    /\ op' = NoOp
    /\ UNCHANGED <<hw, pins, config>>

----------------------------------------------------------------------------
(* Inputs *)

MicrostepInputs == {1, 2, 3}
SpeedInputs == {100, 300}
PercentInputs == {0, 50, 100, 101}
StepInputs == {PyInt(i) : i \in (0..MaxSteps) \cup {10}}
DegInputs == {PyInt(0), PyInt(90)}
FracRevInputs == {PyFloat(1, 2), PyFloat(1, 400)}
RevInputs == {PyInt(i) : i \in 0..MaxRevs}
DirInputs == {FORWARD, REVERSE}

Setters ==
    \/ \E u \in MicrostepInputs : SetMicrosteps(u)
    \/ \E v \in SpeedInputs : SetInitialSpeed(v)
    \/ \E v \in SpeedInputs : SetTargetSpeed(v)
    \/ \E p \in PercentInputs : SetAccelRate(p)

RotateSteps == \E n \in StepInputs, rd \in DirInputs, h \in BOOLEAN :
                   Call("steps", n, rd, h)

RotateDegs == \E n \in DegInputs, rd \in DirInputs, h \in BOOLEAN :
                  Call("degs", n, rd, h)

RotateFracRevs == \E n \in FracRevInputs, rd \in DirInputs, h \in BOOLEAN :
                      Call("revs", n, rd, h)

Body ==
    \/ SetDirection
    \/ Enable
    \/ RangeError
    \/ StepHigh
    \/ StepLow
    \/ Adjust
    \/ Finish
    \/ Return

Next ==
    \/ Setters
    \/ RotateSteps
    \/ RotateDegs
    \/ RotateFracRevs
    \/ Body

Spec == Init /\ [][Next]_vars

----------------------------------------------------------------------------
(* Whole revolutions with the default rot_dir and hold, on a controller    *)
(* with all three lines, at the default speeds                             *)

RevMicrostepInputs == ValidMicrosteps \cup {3}
RevPercentInputs == {0, 50, 100}

InitRevs == Init /\ has_dir /\ has_en

RotateRevs == \E n \in RevInputs : Call("revs", n, FORWARD, FALSE)

NextRevs ==
    \/ \E u \in RevMicrostepInputs : SetMicrosteps(u)
    \/ \E p \in RevPercentInputs : SetAccelRate(p)
    \/ RotateRevs
    \/ SetDirection
    \/ Enable
    \/ StepHigh
    \/ StepLow
    \/ Adjust
    \/ Finish
    \/ Return

SpecRevs == InitRevs /\ [][NextRevs]_vars

----------------------------------------------------------------------------
(* The configuration surface: setters with valid and invalid arguments,    *)
(* followed by short moves, on a controller with all three lines           *)

MaxCfgSteps == 2

CfgMicrostepInputs == {0, 1, 2, 3, 64}
CfgSpeedInputs == {-100, 0, 300, 800}
CfgPercentInputs == {-1, 0, 50, 100, 101}
CfgStepInputs == {PyInt(i) : i \in 1..MaxCfgSteps}

InitCfg == Init /\ has_dir /\ has_en

RotateCfg == \E n \in CfgStepInputs : Call("steps", n, FORWARD, FALSE)

NextCfg ==
    \/ \E u \in CfgMicrostepInputs : SetMicrosteps(u)
    \/ \E v \in CfgSpeedInputs : SetInitialSpeed(v)
    \/ \E v \in CfgSpeedInputs : SetTargetSpeed(v)
    \/ \E p \in CfgPercentInputs : SetAccelRate(p)
    \/ RotateCfg
    \/ SetDirection
    \/ Enable
    \/ StepHigh
    \/ StepLow
    \/ Adjust
    \/ Finish
    \/ Return

SpecCfg == InitCfg /\ [][NextCfg]_vars

----------------------------------------------------------------------------
(* A rotate call is sequential code whose delays return: once entered, its *)
(* body keeps running.  Moves of 1..MaxSteps steps on a controller with    *)
(* all three lines, under that fairness                                    *)

LiveMicrostepInputs == {1, 2}
LiveInitialSpeedInputs == {100, 300}
LiveTargetSpeedInputs == {100, 300}
LivePercentInputs == {0, 50, 100}
LiveStepInputs == {PyInt(i) : i \in 1..MaxSteps}

InitLive == Init /\ has_dir /\ has_en

RotateLive == \E n \in LiveStepInputs, rd \in DirInputs, h \in BOOLEAN :
                  Call("steps", n, rd, h)

Running ==
    \/ SetDirection
    \/ Enable
    \/ StepHigh
    \/ StepLow
    \/ Adjust
    \/ Finish

NextLive ==
    \/ \E u \in LiveMicrostepInputs : SetMicrosteps(u)
    \/ \E v \in LiveInitialSpeedInputs : SetInitialSpeed(v)
    \/ \E v \in LiveTargetSpeedInputs : SetTargetSpeed(v)
    \/ \E p \in LivePercentInputs : SetAccelRate(p)
    \/ RotateLive
    \/ Running
    \/ Return

SpecLive == InitLive /\ [][NextLive]_vars /\ WF_vars(Running)

----------------------------------------------------------------------------
(* Properties *)

\* int(x / 2) of an integer x, written out
Halved(x) == IF x >= 0 THEN x \div 2 ELSE -((-x) \div 2)

\* round() of a non-negative number: to nearest, ties to even
Round(a) ==
    LET fl == a.n \div a.d
        r2 == 2 * (a.n - fl * a.d)
    IN  IF r2 < a.d THEN fl
        ELSE IF r2 > a.d THEN fl + 1
        ELSE IF fl % 2 = 0 THEN fl ELSE fl + 1

Ended == pc \in {"done", "raised"}
Flat == ~Truthy(accel_rate)
PositiveSpeeds == initial_speed > 0 /\ target_speed > 0
DefaultConfig ==
    /\ microsteps = 1
    /\ initial_speed = 200
    /\ target_speed = 200
    /\ ~Truthy(accel_rate)

\* C1: in a flat move (accel_rate = 0) with an integer step count >= 0,
\* both delays of every pulse are int(target_step_us / 2), the same for
\* every pulse, and the call ends after exactly steps pulses; with the
\* default configuration rotate_steps(10, FORWARD, False) runs its pulses
\* with enable asserted and ends with the direction line at FORWARD, 10
\* pulses made and enable deasserted.
C1_FlatMove ==
    (kind # "none" /\ Flat /\ ~steps.f /\ steps.n >= 0) =>
        /\ pc \in {"high", "low"} => high_us = Halved(target_step_us)
        /\ pc = "low" => low_us = Halved(target_step_us)
        /\ (pc = "high" /\ step >= 1) => interval = prev_interval
        /\ pc = "done" => pulses = steps.n
        /\ (DefaultConfig /\ kind = "steps" /\ arg = PyInt(10)
              /\ rot_dir = FORWARD /\ ~hold) =>
                /\ pc \in {"high", "low"} => (has_en => en = 1)
                /\ pc = "done" => /\ pulses = 10
                                  /\ has_dir => dir = FORWARD
                                  /\ has_en => en = 0

C1_Witness ==
    /\ pc = "done"
    /\ DefaultConfig
    /\ kind = "steps"
    /\ arg = PyInt(10)
    /\ rot_dir = FORWARD
    /\ ~hold
    /\ has_dir
    /\ has_en
    /\ pulses = 10
    /\ high_us = 750
    /\ low_us = 750
    /\ dir = FORWARD
    /\ en = 0

\* C2: rotate_revs(r) with an integer r >= 0 ends with exactly
\* r * 200 * microsteps pulses made, whatever the microsteps and the
\* accel_rate, and for r >= 1 it does not raise.
C2_RevsPulses ==
    (Ended /\ kind = "revs" /\ ~arg.f /\ arg.n >= 0) =>
        /\ pulses = arg.n * 200 * microsteps
        /\ arg.n >= 1 => pc = "done"

C2_Witness ==
    /\ pc = "done"
    /\ kind = "revs"
    /\ arg = PyInt(1)
    /\ microsteps = 8
    /\ Truthy(accel_rate)
    /\ pulses = 1600

\* C3: a rotate_degs(d) call, and a rotate_revs call with a fractional
\* magnitude, ends having made round(d / 360 * 200 * microsteps), resp.
\* round(revs * 200 * microsteps), pulses.
C3_RoundedSteps ==
    (Ended /\ arg.n >= 0) =>
        /\ kind = "degs" =>
             pulses = Round(PyFloat(arg.n * 200 * microsteps, arg.d * 360))
        /\ (kind = "revs" /\ arg.f) =>
             pulses = Round(PyFloat(arg.n * 200 * microsteps, arg.d))

\* C4: a rotate call with an integer step count of 0 raises nothing, sets
\* the direction line, makes no pulse and leaves enable asserted iff hold.
C4_ZeroLengthMove ==
    (Ended /\ kind # "none" /\ steps = PyInt(0)) =>
        /\ pc = "done"
        /\ exc = "none"
        /\ pulses = 0
        /\ has_dir => dir = rot_dir
        /\ has_en => (en = 1 <=> hold)

\* C5: with an enable line, enable is asserted while a call steps, and
\* when a call has completed enable is asserted iff that call had hold,
\* whatever the state the earlier calls left; without an enable line the
\* enable state is never written.
C5_HoldPolicy ==
    /\ (has_en /\ pc \in {"enabled", "high", "low", "stepping"}) => en = 1
    /\ (has_en /\ pc = "done") => (en = 1 <=> hold)
    /\ (has_en /\ pc = "done") => en \in {0, 1}
    /\ ~has_en => en = Unset

C5_Witness ==
    /\ pc = "done"
    /\ has_en
    /\ hold
    /\ en_before = 0
    /\ en = 1
    /\ pulses >= 1

\* C6: the phases of a call are entered only in the order idle, (schedule
\* computed), direction set, enabled, stepping (high, low, adjust per
\* pulse), done - a call that raises stops where it raised; from the
\* moment the direction is set the direction line equals rot_dir, from
\* the enable to the end of the loop enable is asserted, the step line
\* rises only in that window, and enable is released only with the step
\* line low and all pulses made.
PhaseOrder ==
    {<<"idle", "start">>, <<"start", "dir_set">>, <<"dir_set", "enabled">>,
     <<"enabled", "high">>, <<"high", "low">>, <<"low", "stepping">>,
     <<"stepping", "high">>, <<"enabled", "done">>, <<"stepping", "done">>,
     <<"done", "idle">>, <<"idle", "raised">>, <<"enabled", "raised">>,
     <<"raised", "idle">>, <<"idle", "set">>, <<"set", "idle">>}

C6_SignalOrder ==
    [][/\ pc' # pc => <<pc, pc'>> \in PhaseOrder
       /\ (has_dir /\ pc' \in {"dir_set", "enabled", "high", "low",
                               "stepping", "done"}) => dir' = rot_dir'
       /\ (has_en /\ pc' \in {"enabled", "high", "low", "stepping"})
             => en' = 1
       /\ pc' \in {"start", "dir_set"} => en' = en_before'
       /\ (stp' = 1 /\ stp # 1) => /\ pc \in {"enabled", "stepping"}
                                   /\ has_en => en = 1
                                   /\ has_dir => dir = rot_dir
       /\ (has_en /\ en = 1 /\ en' # 1) => /\ pc' = "done"
                                           /\ ~hold
                                           /\ stp # 1
                                           /\ pulses = steps.n \/ steps.n < 0
      ]_vars

C6_Witness ==
    /\ pc = "low"
    /\ has_dir
    /\ has_en
    /\ PositiveSpeeds
    /\ ~hold
    /\ rot_dir = REVERSE
    /\ dir = REVERSE
    /\ en_before = 0
    /\ en = 1
    /\ stp = 0
    /\ steps.n >= 2
    /\ pulses = steps.n

\* C7: when a move starts, the cached step intervals equal the intervals
\* computed from the current speeds and the current microsteps, and the
\* first half-interval of the move is computed from them.
C7_FreshIntervals ==
    (pc = "start" /\ initial_speed # 0 /\ target_speed # 0) =>
        /\ initial_step_us = step_us(initial_speed, microsteps)
        /\ target_step_us = step_us(target_speed, microsteps)
        /\ step_interval =
             PyInt(Halved(step_us(IF Flat THEN target_speed ELSE initial_speed,
                                  microsteps)))

\* C8: in a ramped move with positive speeds and floor(steps *
\* accel_rate / 2) >= 1, the half-interval does not increase from one
\* index to the next while both are below accel_point, is the same while
\* both are in [accel_point, decel_point), and does not decrease while
\* both are at or above decel_point.
C8_RampShape ==
    (/\ pc = "high"
     /\ step >= 1
     /\ ~Flat
     /\ PositiveSpeeds
     /\ ~steps.f
     /\ Leq(PyInt(1), accel_point)) =>
        /\ Less(PyInt(step), accel_point) => interval <= prev_interval
        /\ (Leq(accel_point, PyInt(step - 1))
              /\ Less(PyInt(step), decel_point)) => interval = prev_interval
        /\ Leq(decel_point, PyInt(step - 1)) => interval >= prev_interval

\* C9: with positive speeds, the argument of every sleep_us of a move is
\* strictly positive.
C9_PositiveInterval ==
    (pc \in {"high", "low"} /\ PositiveSpeeds) =>
        /\ high_us > 0
        /\ pc = "low" => low_us > 0

\* C10: in a ramped move with an integer step count >= 1,
\* 0 <= accel_point <= decel_point <= steps.
C10_Boundaries ==
    (pc = "start" /\ ~Flat /\ ~steps.f /\ steps.n >= 1) =>
        /\ Leq(PyInt(0), accel_point)
        /\ Leq(accel_point, decel_point)
        /\ Leq(decel_point, steps)

\* C12: microsteps is always one of 1, 2, 4, 8, 16, 32; a microsteps
\* assignment raises nothing, stores a value of that set and changes
\* nothing else, and with any other value leaves the whole configuration
\* as it was.
C12_MicrostepsValid ==
    /\ microsteps \in {1, 2, 4, 8, 16, 32}
    /\ op.name = "microsteps" =>
         /\ pc = "set"
         /\ exc = "none"
         /\ IF op.val \in {1, 2, 4, 8, 16, 32}
            THEN config = <<op.val, cfg_before[2], cfg_before[3],
                            cfg_before[4], cfg_before[5], cfg_before[6]>>
            ELSE config = cfg_before

C12_Witness ==
    /\ pc = "set"
    /\ op = [name |-> "microsteps", val |-> 3]
    /\ microsteps = 2
    /\ config = cfg_before

\* C13: accel_rate is always in [0, 1]; an accel_rate assignment raises
\* nothing, stores percent / 100 for an integer percent in 0..100 and
\* changes nothing else, and with any other integer leaves the whole
\* configuration as it was.
C13_AccelRateValid ==
    /\ accel_rate.d > 0
    /\ 0 <= accel_rate.n
    /\ accel_rate.n <= accel_rate.d
    /\ op.name = "accel_rate" =>
         /\ pc = "set"
         /\ exc = "none"
         /\ IF op.val >= 0 /\ op.val <= 100
            THEN /\ accel_rate.n * 100 = op.val * accel_rate.d
                 /\ <<microsteps, initial_speed, initial_step_us,
                      target_speed, target_step_us>>
                      = <<cfg_before[1], cfg_before[2], cfg_before[3],
                          cfg_before[4], cfg_before[5]>>
            ELSE config = cfg_before

C13_Witness ==
    /\ pc = "set"
    /\ op = [name |-> "accel_rate", val |-> 101]
    /\ accel_rate = PyFloat(1, 2)
    /\ config = cfg_before

\* ceil(300000 / (target_speed * microsteps)), for a positive target_speed
TargetCeil ==
    (300000 + target_speed * microsteps - 1) \div (target_speed * microsteps)

\* the cached target interval is the one of the current speed and microsteps
TargetCurrent == target_speed > 0 /\ target_step_us = TargetCeil

\* C14 as stated: after a target_speed assignment with rpm > 0, both
\* delays of every pulse of a flat move are exactly
\* ceil(300000 / (rpm * microsteps)) / 2, also when the ceil is odd.
C14_HalfIntervalExact ==
    /\ (pc = "set" /\ op.name = "target_speed" /\ op.val > 0) =>
         TargetCurrent
    /\ (pc \in {"high", "low"} /\ Flat /\ TargetCurrent) =>
         /\ 2 * high_us = TargetCeil
         /\ pc = "low" => 2 * low_us = TargetCeil

\* C14 as amended: after a target_speed assignment with rpm > 0 the
\* cached interval is ceil(300000 / (rpm * microsteps)), and while it is
\* current both delays of every pulse of a flat move are that value
\* halved and truncated to an integer.
C14_HalfIntervalTruncated ==
    /\ (pc = "set" /\ op.name = "target_speed" /\ op.val > 0) =>
         TargetCurrent
    /\ (pc \in {"high", "low"} /\ Flat /\ TargetCurrent) =>
         /\ high_us = TargetCeil \div 2
         /\ pc = "low" => low_us = TargetCeil \div 2

C14_Witness ==
    /\ pc = "low"
    /\ Flat
    /\ microsteps = 1
    /\ target_speed = 800
    /\ target_step_us = 375
    /\ high_us = 187
    /\ low_us = 187

\* C15: both speeds are always > 0 and no speed assignment raises.
C15_SpeedsValid ==
    /\ initial_speed > 0
    /\ target_speed > 0
    /\ op.name \in {"initial_speed", "target_speed"} => pc # "raised"

\* floor(steps * accel_rate / 2), for an integer step count >= 0
RampSteps == (steps.n * accel_rate.n) \div (accel_rate.d * 2)

\* C11: in a ramped move with an integer step count, accel_point is
\* floor(steps * accel_rate / 2), decel_point is (steps - 1) minus that,
\* and the interval is decreased after exactly the indices below
\* accel_point, increased after the indices at or above decel_point and
\* left alone after the others.
C11_RampBoundaries ==
    [][(~Flat /\ ~steps.f /\ steps.n >= 0) =>
         /\ pc = "start" =>
              /\ accel_point.n = RampSteps * accel_point.d
              /\ decel_point.n = (steps.n - 1 - RampSteps) * decel_point.d
         /\ pc = "low" =>
              step_interval' =
                IF step < RampSteps
                THEN Sub(step_interval, increment)
                ELSE IF step >= steps.n - 1 - RampSteps
                     THEN Add(step_interval, increment)
                     ELSE step_interval
      ]_vars

\* C16: in a ramped move with an integer step count >= 2, the first
\* pulse (index 0) and the last pulse (index steps - 1) both use
\* int(initial_step_us / 2).
C16_StartEndInterval ==
    (/\ pc \in {"high", "low"}
     /\ ~Flat
     /\ ~steps.f
     /\ steps.n >= 2
     /\ step \in {0, steps.n - 1}) => high_us = Halved(initial_step_us)

\* C17: in a ramped move, every pulse whose index is at or above
\* accel_point and below decel_point uses int(target_step_us / 2), the
\* half-interval of a flat move.
C17_CruiseInterval ==
    (/\ pc \in {"high", "low"}
     /\ ~Flat
     /\ ~steps.f
     /\ Leq(accel_point, PyInt(step))
     /\ Less(PyInt(step), decel_point)) => high_us = Halved(target_step_us)

\* C18: with positive speeds, a rotate call with an integer step count
\* n >= 1 eventually is done with exactly n pulses made and the step line
\* low; each pulse is step line on, delay d, step line off, the same
\* delay d, with d = int(step_interval) as it was before the pulse; the
\* step line is raised only from low and lowered only from high; and
\* step_interval changes only after the low phase of a pulse.
C18_Completion ==
    /\ [](pc = "high" => stp = 1)
    /\ [](pc = "low" => (stp = 0 /\ high_us = low_us))
    /\ []((pc = "done" /\ ~steps.f /\ steps.n >= 1) =>
             (pulses = steps.n /\ stp = 0))
    /\ [][/\ pc' = "high" => /\ stp # 1
                             /\ stp' = 1
                             /\ high_us' = Trunc(step_interval)
                             /\ pulses' = pulses
          /\ pc' = "low" => /\ stp = 1
                            /\ stp' = 0
                            /\ low_us' = high_us
                            /\ pulses' = pulses + 1
          /\ pc \in {"start", "dir_set", "enabled", "stepping", "high"}
               => step_interval' = step_interval
         ]_vars
    /\ \A n \in 1..MaxSteps :
         (pc = "start" /\ steps = PyInt(n) /\ PositiveSpeeds)
           ~> (pc = "done" /\ pulses = n /\ stp = 0)

C18_Witness ==
    /\ pc = "done"
    /\ PositiveSpeeds
    /\ ~Flat
    /\ steps = PyInt(3)
    /\ pulses = 3
    /\ stp = 0
    /\ high_us = low_us
    /\ high_us # Halved(initial_step_us)

\* C19: while a rotate call runs and when it has ended (returned or
\* raised), the configuration - microsteps, both speeds, both cached
\* intervals and accel_rate - is what it was when the call was entered;
\* and a setter call leaves the step, direction and enable lines as they
\* were.
C19_Frame ==
    /\ [](kind # "none" => config = cfg_before)
    /\ [][op'.name # "none" => pins' = pins]_vars

C19_Witness ==
    /\ pc = "done"
    /\ kind = "steps"
    /\ ~Flat
    /\ initial_speed # target_speed
    /\ pulses = 3
    /\ step_interval # PyInt(Halved(initial_step_us))
    /\ config = cfg_before

\* C20: with an enable line, when a rotate call with hold = False has
\* ended, returned or raised, either enable is deasserted or the call
\* raised before it touched the enable line.
C20_EnableReleased ==
    (Ended /\ kind # "none" /\ has_en /\ ~hold) =>
        \/ en = 0
        \/ (pc = "raised" /\ exc = "ZeroDivisionError" /\ en = en_before)

====
